---- MODULE Spec2Model ----
(***************************************************************************)
(* branch-name-validator: the relevance scorer of index_jira_backup.js     *)
(* (validateContentRelevance) and the Jira ticket validation around it.    *)
(*                                                                         *)
(* A JavaScript string is a sequence of one-character strings.             *)
(***************************************************************************)
EXTENDS Integers, Sequences, FiniteSets, TLC

VARIABLES
    relName,      \* validateContentRelevance: argument name
    relSummary,   \* validateContentRelevance: argument ticketSummary
    relTicket,    \* validateContentRelevance: argument ticketId
    relResult,    \* outcome of the call: not called, returned value, or thrown
    skipJira,     \* JIRA_CONFIG.skipValidation, or apiUrl/username/apiToken missing
    clock,        \* Date.now(), in minutes
    ticketCache,  \* ticketCache: ticket ID -> the cached result object
    calls,        \* the validateBranchName / validateCommitMessage calls under way
    started,      \* the number of calls made
    cacheOp,      \* the last clearCache() / getCacheStats() call and what it returned
    both,         \* the validateBoth call: idle, running, or its returned value
    cliArgs,      \* process.argv.slice(2) of a run of the format validators
    skipValidation, \* CONFIG.skipValidation of the v3 validator
    fmtResult     \* what the run did: not run, or the operation and its outcome

relVars == <<relName, relSummary, relTicket, relResult>>
jiraVars == <<skipJira, clock, ticketCache, calls, started, cacheOp, both>>
fmtVars == <<cliArgs, skipValidation, fmtResult>>
vars == <<relName, relSummary, relTicket, relResult,
          skipJira, clock, ticketCache, calls, started, cacheOp, both,
          cliArgs, skipValidation, fmtResult>>

(***************************************************************************)
(* Bounds of the explored inputs.                                          *)
(***************************************************************************)
MaxNameWords == 2
MaxSummaryWords == 2
MaxCalls == 2
MaxTicks == 2
MaxCallsBetween == 1
MaxCallsBefore == 1

(***************************************************************************)
(* Characters and the JavaScript string primitives the code uses.          *)
(***************************************************************************)
UpperChars == <<"A","B","C","D","E","F","G","H","I","J","K","L","M",
                "N","O","P","Q","R","S","T","U","V","W","X","Y","Z">>
LowerChars == <<"a","b","c","d","e","f","g","h","i","j","k","l","m",
                "n","o","p","q","r","s","t","u","v","w","x","y","z">>
DigitChars == {"0","1","2","3","4","5","6","7","8","9"}

UpperSet == {UpperChars[i] : i \in 1..26}
LowerSet == {LowerChars[i] : i \in 1..26}

LowerOf == [c \in UpperSet |-> LowerChars[CHOOSE i \in 1..26 : UpperChars[i] = c]]
UpperOf == [c \in LowerSet |-> UpperChars[CHOOSE i \in 1..26 : LowerChars[i] = c]]

\* String.prototype.toLowerCase
toLowerCase(s) == [i \in 1..Len(s) |-> IF s[i] \in UpperSet THEN LowerOf[s[i]] ELSE s[i]]

\* String.prototype.toUpperCase
toUpperCase(s) == [i \in 1..Len(s) |-> IF s[i] \in LowerSet THEN UpperOf[s[i]] ELSE s[i]]

\* s has t at (1-based) position i
StartsAt(s, t, i) ==
    /\ i + Len(t) - 1 <= Len(s)
    /\ \A j \in 1..Len(t) : s[i + j - 1] = t[j]

\* String.prototype.includes
includes(s, t) == \E i \in 1..(Len(s) - Len(t) + 1) : StartsAt(s, t, i)

\* String.prototype.substring(0, n)
substring0(s, n) == SubSeq(s, 1, IF n < Len(s) THEN n ELSE Len(s))

\* Array.prototype.includes
arrayIncludes(xs, x) == \E i \in 1..Len(xs) : xs[i] = x


(***************************************************************************)
(* Words used by the code's constants and by the explored inputs.          *)
(***************************************************************************)
w_feature == <<"f","e","a","t","u","r","e">>
w_bugfix == <<"b","u","g","f","i","x">>
w_hotfix == <<"h","o","t","f","i","x">>
w_release == <<"r","e","l","e","a","s","e">>
w_chore == <<"c","h","o","r","e">>
w_the == <<"t","h","e">>
w_new == <<"n","e","w">>
w_poc == <<"p","o","c">>
w_create == <<"c","r","e","a","t","e">>
w_app == <<"a","p","p">>
w_restrict == <<"r","e","s","t","r","i","c","t">>
w_gift == <<"g","i","f","t">>
w_cards == <<"c","a","r","d","s">>
w_card == <<"c","a","r","d">>
w_restriction == <<"r","e","s","t","r","i","c","t","i","o","n">>
w_user == <<"u","s","e","r">>
w_authentication == <<"a","u","t","h","e","n","t","i","c","a","t","i","o","n">>
w_notes == <<"n","o","t","e","s">>
w_care == <<"c","a","r","e">>
w_fix == <<"f","i","x">>
w_with == <<"w","i","t","h">>

\* "a b c" from <<a, b, c>> and a one-character separator
RECURSIVE join(_, _)
join(ws, sep) ==
    IF ws = <<>> THEN <<>>
    ELSE IF Len(ws) = 1 THEN ws[1]
    ELSE ws[1] \o <<sep>> \o join(Tail(ws), sep)

(***************************************************************************)
(* extractKeywords(text): split on non-alphanumeric characters, lower-case, *)
(* drop tokens shorter than the minimum length and tokens of the stoplist,  *)
(* deduplicate keeping the first occurrence, keep at most MaxKeywords.      *)
(***************************************************************************)
MinKeywordLength == 3
MaxKeywords == 8

StopWords == {w_the, w_new, w_poc, w_with, <<"a">>, <<"t","o">>, <<"i","s">>}

IsAlnum(c) == c \in UpperSet \cup LowerSet \cup DigitChars

RECURSIVE splitWords(_, _, _)
splitWords(s, i, cur) ==
    IF i > Len(s) THEN (IF cur = <<>> THEN <<>> ELSE <<cur>>)
    ELSE IF IsAlnum(s[i]) THEN splitWords(s, i + 1, Append(cur, s[i]))
    ELSE (IF cur = <<>> THEN <<>> ELSE <<cur>>) \o splitWords(s, i + 1, <<>>)

dedupe_keepAll(xs, seen) == xs
RECURSIVE dedupe(_, _)
dedupe(xs, seen) ==
    IF xs = <<>> THEN <<>>
    ELSE IF Head(xs) \in seen THEN dedupe(Tail(xs), seen)
    ELSE <<Head(xs)>> \o dedupe(Tail(xs), seen \cup {Head(xs)})

IsKeyword(w) == Len(w) >= MinKeywordLength /\ w \notin StopWords

extractKeywords(text) ==
    LET tokens == splitWords(toLowerCase(text), 1, <<>>)
        kept   == dedupe(SelectSeq(tokens, IsKeyword), {})
    IN  SubSeq(kept, 1, IF Len(kept) > MaxKeywords THEN MaxKeywords ELSE Len(kept))

(***************************************************************************)
(* new RegExp(source, 'g') for the sources the code builds: the lower-cased *)
(* ticket ID followed by [-_]*.  Of the pattern syntax the ticket IDs       *)
(* explored use literal characters and parentheses: the constructor throws  *)
(* a SyntaxError for an unterminated or unopened group, and a group without *)
(* alternation matches the literal text inside it.                          *)
(***************************************************************************)
RECURSIVE parensBalanced(_, _, _)
parensBalanced(src, i, depth) ==
    IF i > Len(src) THEN depth = 0
    ELSE IF src[i] = "(" THEN parensBalanced(src, i + 1, depth + 1)
    ELSE IF src[i] = ")" THEN depth > 0 /\ parensBalanced(src, i + 1, depth - 1)
    ELSE parensBalanced(src, i + 1, depth)

RegExpCompiles(src) == parensBalanced(src, 1, 0)

IsParen(c) == c \in {"(", ")"}
NotParen(c) == ~IsParen(c)

\* the literal text a compiled ticket pattern matches
RegExpLiteral(src) == SelectSeq(src, NotParen)

\* first position >= i of s that is not in chars (Len(s)+1 if none)
RECURSIVE skipRun(_, _, _)
skipRun(s, i, chars) ==
    IF i <= Len(s) /\ s[i] \in chars THEN skipRun(s, i + 1, chars) ELSE i

\* s.replace(new RegExp(lit + '[-_]*', 'g'), ''), scanning from position i
RECURSIVE replaceTicket(_, _, _)
replaceTicket(s, lit, i) ==
    IF i > Len(s) THEN <<>>
    ELSE IF StartsAt(s, lit, i)
         THEN LET j == skipRun(s, i + Len(lit), {"-", "_"})
              IN  IF j = i THEN <<s[i]>> \o replaceTicket(s, lit, i + 1)
                  ELSE replaceTicket(s, lit, j)
         ELSE <<s[i]>> \o replaceTicket(s, lit, i + 1)

CategoryPrefixes == {w_feature, w_bugfix, w_hotfix, w_release, w_chore}

\* s.replace(/^(feature|bugfix|hotfix|release|chore)[-_\/]*/g, '')
stripPrefix(s) ==
    IF \E p \in CategoryPrefixes : StartsAt(s, p, 1)
    THEN LET p == CHOOSE q \in CategoryPrefixes : StartsAt(s, q, 1)
             j == skipRun(s, Len(p) + 1, {"-", "_", "/"})
         IN  SubSeq(s, j, Len(s))
    ELSE s

\* const nameLower = name.toLowerCase()
nameLower_asIs(name) == name
nameLowerOf(name) == toLowerCase(name)

\* cleanName of validateContentRelevance, for a ticket ID whose pattern compiles
cleanNameOf(name, ticketId) ==
    stripPrefix(replaceTicket(nameLowerOf(name), RegExpLiteral(toLowerCase(ticketId)), 1))

(***************************************************************************)
(* validateContentRelevance(name, ticketSummary, ticketId)                  *)
(***************************************************************************)
PartialLength == 4
RelevanceThreshold == 30

\* keyword => cleanName.includes(keyword) ||
\*            (keyword.length >= 4 && cleanName.includes(keyword.substring(0, 4)))
keywordMatches_verbatimOnly(cleanName, keyword) == includes(cleanName, keyword)
keywordMatches(cleanName, keyword) ==
    \/ includes(cleanName, keyword)
    \/ /\ Len(keyword) >= PartialLength
       /\ includes(cleanName, substring0(keyword, PartialLength))

\* keywords.filter(keyword => ...)
matchedKeywordsOf_sticky(keywords, cleanName) ==
    LET Matches(k) == keywordMatches(cleanName, k) \/ ticketCache # <<>>
    IN  SelectSeq(keywords, Matches)
matchedKeywordsOf(keywords, cleanName) ==
    LET Matches(k) == keywordMatches(cleanName, k)
    IN  SelectSeq(keywords, Matches)

\* keywords.filter(k => !matchedKeywords.includes(k))
missingKeywordsOf_all(keywords, matchedKeywords) == keywords
missingKeywordsOf(keywords, matchedKeywords) ==
    LET NotMatched(k) == ~arrayIncludes(matchedKeywords, k)
    IN  SelectSeq(keywords, NotMatched)

\* Math.round(x) for x = num / den >= 0: the nearest integer, halves up.
\* (matched / total) * 100 is computed in doubles; for total <= MaxKeywords the
\* double is exact at the halves (total = 8) and far from a half elsewhere.
MathRound_floor(num, den) == num \div den
MathRound(num, den) == (2 * num + den) \div (2 * den)

\* isRelevant = matchPercentage >= 30, on the unrounded (matched / total) * 100
isRelevantAt_fraction(matched, total) ==
    IF total > 0 THEN matched >= RelevanceThreshold * total
    ELSE 100 >= RelevanceThreshold
isRelevantAt(matched, total) ==
    IF total > 0 THEN 100 * matched >= RelevanceThreshold * total
    ELSE 100 >= RelevanceThreshold

\* Math.round(matchPercentage)
roundedPercentage(matched, total) ==
    IF total > 0 THEN MathRound(100 * matched, total) ELSE 100

Returned(v) == [outcome |-> "returned", value |-> v]
Threw(e) == [outcome |-> "threw", error |-> e]

validateContentRelevance(name, ticketSummary, ticketId) ==
    IF ticketSummary = <<>>
    THEN Returned([relevant |-> TRUE,
                   message |-> "no-summary",
                   missingKeywords |-> <<>>])
    ELSE IF ~RegExpCompiles(toLowerCase(ticketId))
    THEN Threw("SyntaxError")
    ELSE
      LET keywords == extractKeywords(ticketSummary)
          cleanName == cleanNameOf(name, ticketId)
          matchedKeywords == matchedKeywordsOf(keywords, cleanName)
          isRelevant == isRelevantAt(Len(matchedKeywords), Len(keywords))
      IN  Returned([relevant |-> isRelevant,
                    matchPercentage |-> roundedPercentage(Len(matchedKeywords), Len(keywords)),
                    matchedKeywords |-> matchedKeywords,
                    missingKeywords |-> missingKeywordsOf(keywords, matchedKeywords),
                    allKeywords |-> keywords,
                    message |-> IF isRelevant THEN "relevant" ELSE "low-relevance"])

(***************************************************************************)
(* Inputs of the relevance scorer.                                         *)
(***************************************************************************)
\* sequences over S of length 0..n
SeqsUpTo(S, n) == UNION {[1..k -> S] : k \in 0..n}

w_Cards == <<"C","a","r","d","s">>
w_to == <<"t","o">>

NameVocab == {w_gift, w_card, w_release}
SummaryVocab == {w_gift, w_Cards, w_to}

\* the ticket summary and the branch names of the content relevance test cases
SummaryGiftCards == <<"P","O","C"," ","-"," ","c","r","e","a","t","e"," ","a","p","p"," ","t","o"," ","r","e","s","t","r","i","c","t"," ","g","i","f","t"," ","c","a","r","d","s">>

TicketShop == <<"S","H","O","P","-","8","5","4","8">>

BranchHigh == w_feature \o <<"/">> \o TicketShop \o <<"-">> \o
              join(<<w_create, w_gift, w_card, w_restriction, w_app>>, "-")
BranchGood == w_feature \o <<"/">> \o TicketShop \o <<"-">> \o
              join(<<w_gift, w_card, w_app>>, "-")
BranchBasic == w_feature \o <<"/">> \o TicketShop \o <<"-">> \o
               join(<<w_create, w_app>>, "-")
BranchPoor == w_feature \o <<"/">> \o TicketShop \o <<"-">> \o
              join(<<w_user, w_authentication>>, "-")

\* a summary with more keywords than extractKeywords keeps
SummaryLong == join(<<w_create, w_app, w_restrict, w_gift, w_cards, w_user,
                      w_authentication, w_notes, w_care, w_fix>>, " ")

Summaries ==
    {join(ws, " ") : ws \in SeqsUpTo(SummaryVocab, MaxSummaryWords)}
        \cup {SummaryGiftCards, SummaryLong}

TicketIds == {TicketShop, toLowerCase(TicketShop), <<"(">> \o TicketShop}

NamePrefixes == {<<>>, w_feature \o <<"/">>}
NameTickets == {<<>>, TicketShop \o <<"-">>}

Names ==
    LET plain == {p \o t \o join(ws, "-") :
                    p \in NamePrefixes, t \in NameTickets,
                    ws \in SeqsUpTo(NameVocab, MaxNameWords)}
                 \cup {BranchHigh, BranchGood, BranchBasic, BranchPoor}
    IN  plain \cup {toUpperCase(n) : n \in plain}

NotCalled == [outcome |-> "none"]

\* validateBoth has not been called
BothIdle == [state |-> "idle"]

(***************************************************************************)
(* The Jira validation is idle in the scorer's own specification.          *)
(***************************************************************************)
JiraIdle ==
    /\ skipJira = FALSE
    /\ clock = 0
    /\ ticketCache = <<>>
    /\ calls = <<>>
    /\ started = 0
    /\ cacheOp = NotCalled
    /\ both = BothIdle

(***************************************************************************)
(* The format validators are idle in the other specifications.             *)
(***************************************************************************)
FormatIdle ==
    /\ cliArgs = <<>>
    /\ skipValidation = FALSE
    /\ fmtResult = NotCalled

(***************************************************************************)
(* The scorer as a state machine: one call on arbitrary arguments.         *)
(***************************************************************************)
InitRelevance ==
    /\ relName \in Names
    /\ relSummary \in Summaries
    /\ relTicket \in TicketIds
    /\ relResult = NotCalled
    /\ JiraIdle
    /\ FormatIdle

CallValidateContentRelevance ==
    /\ relResult = NotCalled
    /\ relResult' = validateContentRelevance(relName, relSummary, relTicket)
    /\ UNCHANGED <<relName, relSummary, relTicket>>
    /\ UNCHANGED <<jiraVars, fmtVars>>

NextRelevance == CallValidateContentRelevance

SpecRelevance == InitRelevance /\ [][NextRelevance]_vars

(***************************************************************************)
(* Properties of validateContentRelevance (under SpecRelevance).           *)
(***************************************************************************)
HasReturned == relResult.outcome = "returned"
HasScore == HasReturned /\ "matchPercentage" \in DOMAIN relResult.value

\* the elements of a list field of the returned value; a field the value
\* does not carry holds nothing
FieldElems(f) ==
    IF f \in DOMAIN relResult.value
    THEN {relResult.value[f][i] : i \in 1..Len(relResult.value[f])}
    ELSE {}
FieldLen(f) ==
    IF f \in DOMAIN relResult.value THEN Len(relResult.value[f]) ELSE 0

KeywordSet == {extractKeywords(relSummary)[i] : i \in 1..Len(extractKeywords(relSummary))}

\* C1: matchedKeywords and missingKeywords of every returned value partition
\* the keyword set extracted from the summary: together they hold exactly the
\* keywords, and no keyword is held twice or by both.
C1_Partition ==
    HasReturned =>
        LET ks == KeywordSet
        IN  /\ FieldElems("matchedKeywords") \cup FieldElems("missingKeywords") = ks
            /\ FieldElems("matchedKeywords") \cap FieldElems("missingKeywords") = {}
            /\ FieldLen("matchedKeywords") + FieldLen("missingKeywords") = Cardinality(ks)

C1_Witness ==
    /\ HasScore
    /\ relResult.value.matchedKeywords # <<>>
    /\ relResult.value.missingKeywords # <<>>

\* the first n characters of keyword k
FirstChars(k, n) == [i \in 1..n |-> k[i]]

\* C2: a keyword is reported matched exactly when the normalized candidate
\* contains it, or it has at least 4 characters and the normalized candidate
\* contains its first 4 characters; shorter keywords match only verbatim.
C2_MatchRule ==
    HasScore =>
        LET clean == cleanNameOf(relName, relTicket)
            matched == FieldElems("matchedKeywords")
        IN  \A k \in KeywordSet :
              /\ (k \in matched) <=>
                     \/ includes(clean, k)
                     \/ Len(k) >= 4 /\ includes(clean, FirstChars(k, 4))
              /\ Len(k) < 4 => ((k \in matched) <=> includes(clean, k))

C2_Witness ==
    /\ HasScore
    /\ \E k \in FieldElems("matchedKeywords") :
          ~includes(cleanNameOf(relName, relTicket), k)
    /\ \E k \in FieldElems("missingKeywords") : Len(k) < 4

\* C3: with a non-empty keyword set the reported matchPercentage is the
\* integer in 0..100 nearest to 100 * matched / keywords, halves rounded up.
C3_Percentage ==
    HasReturned =>
        LET n == Cardinality(KeywordSet)
        IN  n > 0 =>
              /\ HasScore
              /\ LET p == relResult.value.matchPercentage
                     m == Len(relResult.value.matchedKeywords)
                 IN  /\ p \in 0..100
                     /\ 200 * m - n < 2 * p * n
                     /\ 2 * p * n <= 200 * m + n

C3_Witness ==
    /\ HasScore
    /\ Len(relResult.value.allKeywords) = MaxKeywords
    /\ relResult.value.matchPercentage = 13

\* C4: if the keyword set of the summary is empty, the returned value has
\* matchPercentage 100 and empty matchedKeywords and missingKeywords.
C4_EmptyKeywords ==
    (HasReturned /\ KeywordSet = {}) =>
        /\ HasScore
        /\ relResult.value.matchPercentage = 100
        /\ relResult.value.matchedKeywords = <<>>
        /\ relResult.value.missingKeywords = <<>>

\* C5: an empty ticket summary yields a returned value reporting
\* matchPercentage 100 with no missing keywords.
C5_EmptySummary ==
    (relResult # NotCalled /\ relSummary = <<>>) =>
        /\ HasScore
        /\ relResult.value.matchPercentage = 100
        /\ relResult.value.missingKeywords = <<>>

\* C6: validateContentRelevance never throws.
C6_NeverThrows == relResult.outcome # "threw"

\* the words of the candidate once the category prefix at its start and the
\* ticket ID are taken away
DescriptionWords ==
    LET rest == replaceTicket(stripPrefix(toLowerCase(relName)),
                              RegExpLiteral(toLowerCase(relTicket)), 1)
        ws   == splitWords(rest, 1, <<>>)
    IN  {ws[i] : i \in 1..Len(ws)}

\* C7: only a category prefix at the start of the candidate is removed: every
\* other word of the candidate is still in the normalized name.
C7_WordsKept ==
    HasScore =>
        \A w \in DescriptionWords : includes(cleanNameOf(relName, relTicket), w)

\* C8: the outcome does not depend on the letter case of the candidate name
\* or of the ticket ID.
C8_CaseInsensitive ==
    relResult # NotCalled =>
        /\ relResult = validateContentRelevance(toLowerCase(relName), relSummary,
                                                toLowerCase(relTicket))
        /\ relResult = validateContentRelevance(toUpperCase(relName), relSummary,
                                                toUpperCase(relTicket))

C8_Witness ==
    /\ HasScore
    /\ relName # toLowerCase(relName)
    /\ relTicket # toUpperCase(relTicket)
    /\ relResult.value.matchedKeywords # <<>>
    /\ relResult.value.missingKeywords # <<>>

JiraProjectKeys == {<<"S","H","O","P">>}

\* JIRA_CONFIG.cacheTTL, in minutes (JIRA_CACHE_TTL, default 60)
CacheTTL == 60

\* (KEYS)-\d+ at position i of s: the position after it, or 0
ticketEndAt(s, i) ==
    IF \E k \in JiraProjectKeys :
          /\ StartsAt(s, k \o <<"-">>, i)
          /\ skipRun(s, i + Len(k) + 1, DigitChars) > i + Len(k) + 1
    THEN LET k == CHOOSE q \in JiraProjectKeys : StartsAt(s, q \o <<"-">>, i)
         IN  skipRun(s, i + Len(k) + 1, DigitChars)
    ELSE 0

\* extractJiraTicketId(name): the first PROJECT-digits of name, '' for null
RECURSIVE findTicketFrom(_, _)
findTicketFrom(s, i) ==
    IF i > Len(s) THEN <<>>
    ELSE IF ticketEndAt(s, i) > 0 THEN SubSeq(s, i, ticketEndAt(s, i) - 1)
    ELSE findTicketFrom(s, i + 1)

extractJiraTicketId(name) == findTicketFrom(name, 1)

\* (KEYS)-\d+-[a-z0-9-]+$ at position i of s
ticketAndDescriptionAt(s, i) ==
    LET e == ticketEndAt(s, i)
    IN  /\ e > 0
        /\ e < Len(s)
        /\ s[e] = "-"
        /\ \A j \in (e + 1)..Len(s) : s[j] \in LowerSet \cup DigitChars \cup {"-"}

\* new RegExp(`^[a-z]+\/(${projectKeysPattern})-\\d+-[a-z0-9-]+$`).test(branchName)
branchRegexTest(s) ==
    LET i == skipRun(s, 1, LowerSet)
    IN  i > 1 /\ i <= Len(s) /\ s[i] = "/" /\ ticketAndDescriptionAt(s, i + 1)

\* new RegExp(`^(${projectKeysPattern})-\\d+-[a-z0-9-]+$`).test(commitMessage)
commitRegexTest(s) == ticketAndDescriptionAt(s, 1)

\* validPrefixes.some(prefix => branchName.startsWith(prefix))
isValidPrefix(s) == \E p \in CategoryPrefixes : StartsAt(s, p \o <<"/">>, 1)

\* the result of the synchronous format check: a response, or "ok"
formatCheck(fn, name) ==
    IF fn = "branch"
    THEN IF ~isValidPrefix(name)
         THEN [valid |-> FALSE, message |-> "bad-prefix"]
         ELSE IF ~branchRegexTest(name)
         THEN IF extractJiraTicketId(name) = <<>>
              THEN [valid |-> FALSE, message |-> "no-ticket"]
              ELSE [valid |-> FALSE, message |-> "bad-format"]
         ELSE [valid |-> TRUE, message |-> "format-ok"]
    ELSE IF ~commitRegexTest(name)
         THEN [valid |-> FALSE, message |-> "bad-format"]
         ELSE IF extractJiraTicketId(name) = <<>>
         THEN [valid |-> FALSE, message |-> "no-ticket"]
         ELSE [valid |-> TRUE, message |-> "format-ok"]

(***************************************************************************)
(* validateJiraTicket(ticketId, branchOrCommitName).  A result object is   *)
(* shared between the cache and the promise it resolves; the code writes   *)
(* to a result object only through ticketCache[cacheKey], so an object is  *)
(* either the one the cache holds for its ticket or never changes again.   *)
(***************************************************************************)
\* the Jira server: the summary of an existing issue
JiraSummary(ticketId) == SummaryGiftCards

\* what the request can end with: a status code and a kind of body
HttpResponses ==
    {[status |-> 200, body |-> "issue"], [status |-> 200, body |-> "garbage"],
     [status |-> 404, body |-> "json"], [status |-> 401, body |-> "json"],
     [status |-> 500, body |-> "json"], [status |-> 500, body |-> "garbage"]}

\* r with field f set to v
WithField(r, f, v) == (f :> v) @@ r

isFresh_inclusive(entry, now) == now - entry.timestamp <= CacheTTL

\* now - cached.timestamp < JIRA_CONFIG.cacheTTL * 60 * 1000
isFresh(entry, now) == now - entry.timestamp < CacheTTL

\* cache[cacheKey] exists and is fresh
cacheHitIn(cache, ticketId) ==
    /\ ticketId \in DOMAIN cache
    /\ isFresh(cache[ticketId], clock)

\* ticketCache[cacheKey] exists and is fresh
cacheHit(ticketId) == cacheHitIn(ticketCache, ticketId)

\* branchOrCommitName && cached.valid && cached.summary
wantsRelevance(name, cached) ==
    /\ name # <<>>
    /\ cached.valid
    /\ "summary" \in DOMAIN cached
    /\ cached.summary # <<>>

\* the cached object after the cache-hit branch has run on it
cacheHitResult(cached, name, ticketId) ==
    IF wantsRelevance(name, cached)
    THEN WithField(cached, "relevance",
                   validateContentRelevance(name, cached.summary, ticketId).value)
    ELSE cached

skippedResult(now) ==
    [valid |-> TRUE, message |-> "skipped", timestamp |-> now, skipped |-> TRUE]

invalidKeyResult(now) ==
    [valid |-> FALSE, message |-> "invalid-project-key", timestamp |-> now]

\* ticketId.split('-')[0]
projectKeyOf(ticketId) ==
    SubSeq(ticketId, 1, skipRun(ticketId, 1, UpperSet \cup LowerSet \cup DigitChars) - 1)

\* the result built for HTTP 200 with a parsed issue
issueResult(name, ticketId, now) ==
    LET summary == JiraSummary(ticketId)
        base == [valid |-> TRUE, message |-> "exists", summary |-> summary,
                 status |-> "In Progress", assignee |-> "Unassigned",
                 timestamp |-> now]
    IN  IF name = <<>> THEN base
        ELSE LET rel == validateContentRelevance(name, summary, ticketId)
             IN  IF rel.outcome = "threw"
                 THEN [valid |-> FALSE, message |-> "parse-failed", timestamp |-> now]
                 ELSE IF rel.value.relevant
                 THEN WithField(base, "relevance", rel.value)
                 ELSE WithField([base EXCEPT !.valid = FALSE,
                                             !.message = "content-mismatch"],
                                "relevance", rel.value)

responseResult_statusBlind(resp, name, ticketId, now) == issueResult(name, ticketId, now)

\* res.on('end'): the result for a status code and body
responseResult(resp, name, ticketId, now) ==
    IF resp.status = 200
    THEN IF resp.body = "issue" THEN issueResult(name, ticketId, now)
         ELSE [valid |-> FALSE, message |-> "parse-failed", timestamp |-> now]
    ELSE IF resp.status = 404
    THEN [valid |-> FALSE, message |-> "not-found", timestamp |-> now]
    ELSE IF resp.status = 401
    THEN [valid |-> FALSE, message |-> "auth-failed", timestamp |-> now]
    ELSE IF resp.body = "garbage"
    THEN [valid |-> FALSE, message |-> "parse-failed", timestamp |-> now]
    ELSE [valid |-> FALSE, message |-> "api-error", timestamp |-> now]

errorResult(now) == [valid |-> FALSE, message |-> "connection-failed", timestamp |-> now]
timeoutResult(now) == [valid |-> FALSE, message |-> "timeout", timestamp |-> now]

(***************************************************************************)
(* validateBranchName / validateCommitMessage after the await: the         *)
(* response built from the resolved result object as it is at that moment. *)
(***************************************************************************)
\* missingKeywords.slice(0, 3)
slice3(xs) == SubSeq(xs, 1, IF Len(xs) > 3 THEN 3 ELSE Len(xs))

\* r restricted to the fields it has among fs
Pick(r, fs) == [f \in (fs \cap DOMAIN r) |-> r[f]]

\* response.message by jiraResult.relevance.matchPercentage
relevanceLevel(rel) ==
    IF "matchPercentage" \in DOMAIN rel /\ rel.matchPercentage >= 70 THEN "excellent"
    ELSE IF "matchPercentage" \in DOMAIN rel /\ rel.matchPercentage >= 50 THEN "good"
    ELSE "basic"

responseOf(ticketId, jiraResult) ==
    IF ~jiraResult.valid
    THEN LET base == [valid |-> FALSE, message |-> "jira-failed",
                      jiraError |-> jiraResult.message, ticketId |-> ticketId]
         IN  IF "relevance" \in DOMAIN jiraResult
             THEN WithField(base, "relevanceInfo",
                     Pick(jiraResult.relevance, {"matchPercentage"}) @@
                     [ticketSummary |-> jiraResult.summary,
                      suggestedKeywords |-> slice3(jiraResult.relevance.missingKeywords)])
             ELSE base
    ELSE LET base == [valid |-> TRUE, message |-> "valid", ticketId |-> ticketId,
                      jiraInfo |-> Pick(jiraResult, {"summary", "status", "assignee"})]
             withRel ==
                 IF "relevance" \in DOMAIN jiraResult
                 THEN WithField([base EXCEPT !.message = relevanceLevel(jiraResult.relevance)],
                         "relevanceInfo",
                         Pick(jiraResult.relevance,
                              {"matchPercentage", "matchedKeywords", "message"}))
                 ELSE base
         IN  IF "skipped" \in DOMAIN jiraResult /\ jiraResult.skipped
             THEN WithField([withRel EXCEPT !.message = "jira-skipped"], "jiraSkipped", TRUE)
             ELSE withRel

(***************************************************************************)
(* The Jira validation as a state machine.  A call keeps the result its    *)
(* promise resolved with either as "the object the cache holds" (Shared)   *)
(* or as an object of its own (Own).  The model keeps a call's name and    *)
(* response until the next call starts.                                    *)
(***************************************************************************)
CommitGood == TicketShop \o <<"-">> \o join(<<w_gift, w_card, w_app>>, "-")
BranchUpper == w_feature \o <<"/">> \o TicketShop \o <<"-">> \o w_Cards

CallInputs ==
    {<<"branch", BranchGood>>, <<"branch", BranchPoor>>, <<"branch", BranchUpper>>,
     <<"commit", CommitGood>>}

NoResponse == [pending |-> TRUE]
NoRef == [kind |-> "none"]
Shared == [kind |-> "shared"]
Own(result) == [kind |-> "own", obj |-> result]

\* no promise continuation is waiting to run: I/O callbacks and timers run
\* only after the microtasks
MicrotasksDone ==
    \A c \in 1..Len(calls) : calls[c].pc \notin {"resolved", "resolvedInCallback"}

\* no continuation is waiting that a callback's resolve() scheduled: it runs
\* as soon as that callback returns, before any other code of the caller
CallerRuns == \A c \in 1..Len(calls) : calls[c].pc # "resolvedInCallback"

Init ==
    /\ relName = <<>>
    /\ relSummary = <<>>
    /\ relTicket = <<>>
    /\ relResult = NotCalled
    /\ skipJira \in BOOLEAN
    /\ clock = 0
    /\ ticketCache = <<>>
    /\ calls = <<>>
    /\ started = 0
    /\ cacheOp = NotCalled
    /\ both = BothIdle
    /\ FormatIdle

NewCall(fn, name, ticketId, pc, jira, response) ==
    [fn |-> fn, name |-> name, ticketId |-> ticketId, pc |-> pc, jira |-> jira,
     response |-> response, errorPending |-> FALSE]

\* the calls still of interest when the next call starts: a returned call
\* is kept only while an event of its request is still to come
KeepsRunning(call) == call.pc # "done" \/ call.errorPending
Forgotten(call) ==
    IF call.pc = "done" THEN [call EXCEPT !.name = <<>>, !.response = NoResponse]
    ELSE call
Remaining(cs) ==
    LET kept == SelectSeq(cs, KeepsRunning)
    IN  [c \in DOMAIN kept |-> Forgotten(kept[c])]

\* the calls when ticketCache[ticketId] is about to be replaced: a call whose
\* result is the object the cache held keeps that object as its own
DetachFrom(cache, cs, ticketId) ==
    [c \in DOMAIN cs |->
        IF cs[c].jira = Shared /\ cs[c].ticketId = ticketId
        THEN [cs[c] EXCEPT !.jira = Own(cache[ticketId])]
        ELSE cs[c]]

Detach(cs, ticketId) == DetachFrom(ticketCache, cs, ticketId)

\* ticketCache[cacheKey] = result
CachePut(ticketId, result) == (ticketId :> result) @@ ticketCache

\* validateBranchName(name) / validateCommitMessage(name) up to the await:
\* the format check and the synchronous part of validateJiraTicket, run on
\* the cache `cache` and the calls `before`; the cache and the calls after it
startCall(cache, before, fn, name) ==
    LET fmt == formatCheck(fn, name)
        ticketId == extractJiraTicketId(name)
    IN  IF ~fmt.valid
        THEN [cache |-> cache,
              calls |-> Append(before, NewCall(fn, name, <<>>, "done", NoRef, fmt))]
        ELSE IF cacheHitIn(cache, ticketId)
        THEN IF /\ wantsRelevance(name, cache[ticketId])
                /\ validateContentRelevance(name, cache[ticketId].summary,
                                            ticketId).outcome = "threw"
             THEN [cache |-> cache,
                   calls |-> Append(before,
                       NewCall(fn, name, ticketId, "rejected", NoRef, NoResponse))]
             ELSE [cache |-> [cache EXCEPT ![ticketId] = cacheHitResult(@, name, ticketId)],
                   calls |-> Append(before,
                       NewCall(fn, name, ticketId, "resolved", Shared, NoResponse))]
        ELSE IF skipJira
        THEN [cache |-> (ticketId :> skippedResult(clock)) @@ cache,
              calls |-> Append(DetachFrom(cache, before, ticketId),
                       NewCall(fn, name, ticketId, "resolved", Shared, NoResponse))]
        ELSE IF projectKeyOf(ticketId) \notin JiraProjectKeys
        THEN [cache |-> (ticketId :> invalidKeyResult(clock)) @@ cache,
              calls |-> Append(DetachFrom(cache, before, ticketId),
                       NewCall(fn, name, ticketId, "resolved", Shared, NoResponse))]
        ELSE [cache |-> cache,
              calls |-> Append(before,
                       NewCall(fn, name, ticketId, "request", NoRef, NoResponse))]

\* a call of validateBranchName(name) or validateCommitMessage(name)
StartCall(fn, name) ==
    /\ started < MaxCalls
    /\ CallerRuns
    /\ started' = started + 1
    /\ LET after == startCall(ticketCache, Remaining(calls), fn, name)
       IN  /\ ticketCache' = after.cache
           /\ calls' = after.calls
    /\ UNCHANGED <<relVars, fmtVars, cacheOp, both, skipJira, clock>>

CacheAndResolve_cacheOnly(c, result) ==
    /\ ticketCache' = CachePut(calls[c].ticketId, result)
    /\ calls' = Detach(calls, calls[c].ticketId)

\* ticketCache[cacheKey] = result; saveCache(); resolve(result) in a callback
\* of the request of call c
CacheAndResolve(c, result) ==
    /\ ticketCache' = CachePut(calls[c].ticketId, result)
    /\ calls' = [Detach(calls, calls[c].ticketId) EXCEPT
                    ![c].pc = IF calls[c].pc = "request" THEN "resolvedInCallback" ELSE @,
                    ![c].jira = IF calls[c].pc = "request" THEN Shared ELSE @]

\* res.on('end', ...)
ResponseEnd(c, resp) ==
    /\ calls[c].pc = "request"
    /\ MicrotasksDone
    /\ CacheAndResolve(c, responseResult(resp, calls[c].name, calls[c].ticketId, clock))
    /\ UNCHANGED <<relVars, fmtVars, cacheOp, both, skipJira, clock, started>>

\* req.on('error', ...) of a request that got no response
RequestError(c) ==
    /\ calls[c].pc = "request"
    /\ MicrotasksDone
    /\ CacheAndResolve(c, errorResult(clock))
    /\ UNCHANGED <<relVars, fmtVars, cacheOp, both, skipJira, clock, started>>

\* req.on('timeout', ...): req.destroy(), which emits 'error' afterwards
RequestTimeout(c) ==
    /\ calls[c].pc = "request"
    /\ MicrotasksDone
    /\ ticketCache' = CachePut(calls[c].ticketId, timeoutResult(clock))
    /\ calls' = [Detach(calls, calls[c].ticketId) EXCEPT
                    ![c].pc = "resolvedInCallback", ![c].jira = Shared,
                    ![c].errorPending = TRUE]
    /\ UNCHANGED <<relVars, fmtVars, cacheOp, both, skipJira, clock, started>>

\* req.on('error', ...) of a request destroyed by its timeout handler: the
\* promise is already resolved (resolve does nothing), the cache entry is
\* written again
ErrorAfterDestroy(c) ==
    /\ calls[c].errorPending
    /\ MicrotasksDone
    /\ ticketCache' = CachePut(calls[c].ticketId, errorResult(clock))
    /\ calls' = [Detach(calls, calls[c].ticketId) EXCEPT ![c].errorPending = FALSE]
    /\ UNCHANGED <<relVars, fmtVars, cacheOp, both, skipJira, clock, started>>

\* the result object call c's promise resolved with, as it is now
jiraResultOf(c) ==
    IF calls[c].jira = Shared THEN ticketCache[calls[c].ticketId] ELSE calls[c].jira.obj

\* the code after `await validateJiraTicket(...)`
Continue(c) ==
    /\ calls[c].pc \in {"resolved", "resolvedInCallback"}
    /\ calls' = [calls EXCEPT ![c].pc = "done",
                              ![c].jira = NoRef,
                              ![c].response = responseOf(calls[c].ticketId, jiraResultOf(c))]
    /\ UNCHANGED <<relVars, fmtVars, cacheOp, both, skipJira, clock, ticketCache, started>>

\* time passes
Tick ==
    /\ MicrotasksDone
    /\ clock < MaxTicks * (CacheTTL \div 2)
    /\ clock' = clock + CacheTTL \div 2
    /\ UNCHANGED <<relVars, fmtVars, cacheOp, both, skipJira, ticketCache, calls, started>>

\* Jira validation is switched off between validations: skipValidation is
\* read from the exported JIRA_CONFIG at every call, and the cache outlives
\* the change
TurnSkipOn ==
    /\ ~skipJira
    /\ MicrotasksDone
    /\ skipJira' = TRUE
    /\ UNCHANGED <<relVars, fmtVars, cacheOp, both, clock, ticketCache, calls, started>>

Next ==
    \/ \E in \in CallInputs : StartCall(in[1], in[2])
    \/ \E c \in 1..Len(calls), resp \in HttpResponses : ResponseEnd(c, resp)
    \/ \E c \in 1..Len(calls) : RequestError(c)
    \/ \E c \in 1..Len(calls) : RequestTimeout(c)
    \/ \E c \in 1..Len(calls) : ErrorAfterDestroy(c)
    \/ \E c \in 1..Len(calls) : Continue(c)
    \/ Tick
    \/ TurnSkipOn

Spec == Init /\ [][Next]_vars

(***************************************************************************)
(* Properties of validateBranchName with the Jira lookup                   *)
(***************************************************************************)
\* call c is a validateBranchName call that has returned a response built
\* from the data of an existing ticket
ReturnedWithTicket(c) ==
    /\ calls[c].fn = "branch"
    /\ calls[c].pc = "done"
    /\ calls[c].ticketId # <<>>
    /\ "relevanceInfo" \in DOMAIN calls[c].response

\* the percentage the branch name of call c scores against its ticket's summary
ScoreOfCall(c) ==
    validateContentRelevance(calls[c].name, JiraSummary(calls[c].ticketId),
                             calls[c].ticketId).value.matchPercentage

\* C10: a validateBranchName call that returns with the data of an existing
\* ticket, and whose branch name scores below 30% against the ticket's
\* summary, returns valid = false, whether the ticket data came from the
\* HTTP response or from the cache.
C10_PoorRelevanceInvalid ==
    \A c \in 1..Len(calls) :
        (ReturnedWithTicket(c) /\ ScoreOfCall(c) < RelevanceThreshold)
            => ~calls[c].response.valid

(***************************************************************************)
(* The documented scenarios of the scorer (under SpecRelevance).           *)
(***************************************************************************)
\* C11: for the summary "POC - create app to restrict gift cards" (keywords
\* create, app, restrict, gift, cards) and ticket SHOP-8548, the candidate
\* feature/SHOP-8548-gift-card-app is reported with matched keywords app,
\* gift and cards, missing keywords create and restrict, and 60%; "cards" is
\* not in the normalized candidate, only its first 4 characters are.
C11_GiftCardApp ==
    (/\ relResult # NotCalled
     /\ relName = BranchGood
     /\ relSummary = SummaryGiftCards
     /\ relTicket = TicketShop) =>
        /\ HasScore
        /\ relResult.value.allKeywords = <<w_create, w_app, w_restrict, w_gift, w_cards>>
        /\ relResult.value.matchedKeywords = <<w_app, w_gift, w_cards>>
        /\ relResult.value.missingKeywords = <<w_create, w_restrict>>
        /\ relResult.value.matchPercentage = 60
        /\ ~includes(cleanNameOf(relName, relTicket), w_cards)
        /\ includes(cleanNameOf(relName, relTicket), w_card)

C11_Witness ==
    /\ HasScore
    /\ relName = BranchGood
    /\ relSummary = SummaryGiftCards
    /\ relTicket = TicketShop
    /\ relResult.value.matchPercentage = 60

\* C12: the keywords extracted from any summary hold no keyword twice, no
\* keyword shorter than the minimum length, and at most the maximum number
\* of keywords.
C12_KeywordList ==
    HasScore =>
        LET ks == relResult.value.allKeywords
        IN  /\ \A i, j \in 1..Len(ks) : ks[i] = ks[j] => i = j
            /\ \A i \in 1..Len(ks) : Len(ks[i]) >= MinKeywordLength
            /\ Len(ks) <= MaxKeywords

\* a summary with more than MaxKeywords distinct long words was cut
C12_Witness ==
    /\ HasScore
    /\ relSummary = SummaryLong
    /\ Len(relResult.value.allKeywords) = MaxKeywords

\* a summary that repeats a word and holds a short one yields one keyword
C12_WitnessRepeated ==
    /\ HasScore
    /\ relSummary = join(<<w_gift, w_gift>>, " ")
    /\ relResult.value.allKeywords = <<w_gift>>

(***************************************************************************)
(* The scorer called twice on the same arguments while branch names and    *)
(* commit messages are validated against Jira before and in between, at   *)
(* most MaxCallsBetween of them (the time of day is left out: the scorer   *)
(* is not given it).                                                       *)
(***************************************************************************)
InitScoring ==
    /\ relName \in {BranchGood, BranchPoor}
    /\ relSummary = SummaryGiftCards
    /\ relTicket = TicketShop
    /\ relResult = NotCalled
    /\ JiraIdle
    /\ FormatIdle

\* validateContentRelevance(name, ticketSummary, ticketId), first call
ScoreFirst ==
    /\ relResult = NotCalled
    /\ relResult' = [outcome |-> "first",
                     first |-> validateContentRelevance(relName, relSummary, relTicket),
                     cacheBefore |-> ticketCache]
    /\ UNCHANGED <<relName, relSummary, relTicket, jiraVars, fmtVars>>

\* validateContentRelevance(name, ticketSummary, ticketId), same arguments again
ScoreAgain ==
    /\ relResult.outcome = "first"
    /\ relResult' = [outcome |-> "both",
                     first |-> relResult.first,
                     second |-> validateContentRelevance(relName, relSummary, relTicket),
                     cacheChanged |-> ticketCache # relResult.cacheBefore]
    /\ UNCHANGED <<relName, relSummary, relTicket, jiraVars, fmtVars>>

NextScoring ==
    \/ ScoreFirst
    \/ ScoreAgain
    \/ \E in \in CallInputs : started < MaxCallsBetween /\ StartCall(in[1], in[2])
    \/ \E c \in 1..Len(calls), resp \in HttpResponses : ResponseEnd(c, resp)
    \/ \E c \in 1..Len(calls) : RequestError(c)
    \/ \E c \in 1..Len(calls) : RequestTimeout(c)
    \/ \E c \in 1..Len(calls) : ErrorAfterDestroy(c)
    \/ \E c \in 1..Len(calls) : Continue(c)

SpecScoring == InitScoring /\ [][NextScoring]_vars

w_SHOP == <<"S","H","O","P">>
w_PROJ == <<"P","R","O","J">>
w_TASK == <<"T","A","S","K">>
w_BAD == <<"B","A","D">>

\* s.startsWith(t)
startsWith(s, t) == StartsAt(s, t, 1)

\* every character of s from position i on is in chars, and there is one
restIn(s, i, chars) ==
    /\ i <= Len(s)
    /\ \A j \in i..Len(s) : s[j] \in chars

\* ---- v1 ---------------------------------------------------------------
\* validPrefixes = ['feature/', 'bugfix/', 'hotfix/']
v1_validPrefixes == {w_feature \o <<"/">>, w_bugfix \o <<"/">>, w_hotfix \o <<"/">>}

\* SHOP-\d+-[a-z0-9-]+$ at position i of s
v1_ticketAndDescriptionAt(s, i) ==
    LET d == i + Len(w_SHOP) + 1
        e == skipRun(s, d, DigitChars)
    IN  /\ StartsAt(s, w_SHOP \o <<"-">>, i)
        /\ e > d
        /\ e <= Len(s)
        /\ s[e] = "-"
        /\ restIn(s, e + 1, LowerSet \cup DigitChars \cup {"-"})

\* /^[a-z]+\/SHOP-\d+-[a-z0-9-]+$/.test(branchName)
v1_branchRegexTest(s) ==
    LET i == skipRun(s, 1, LowerSet)
    IN  i > 1 /\ i <= Len(s) /\ s[i] = "/" /\ v1_ticketAndDescriptionAt(s, i + 1)

\* /^SHOP-\d+-[a-z0-9-]+$/.test(commitMessage)
v1_commitRegexTest_anywhere(s) == \E i \in 1..Len(s) : v1_ticketAndDescriptionAt(s, i)
v1_commitRegexTest(s) == v1_ticketAndDescriptionAt(s, 1)

\* an unanchored prefix test, for comparison
v1_isValidPrefix_any(branchName) == skipRun(branchName, 1, LowerSet) > 1
v1_isValidPrefix(branchName) == \E p \in v1_validPrefixes : startsWith(branchName, p)

v1_validateBranchName(branchName) ==
    IF ~v1_isValidPrefix(branchName)
    THEN [valid |-> FALSE, message |-> "bad-prefix"]
    ELSE IF ~v1_branchRegexTest(branchName)
    THEN [valid |-> FALSE, message |-> "invalid-branch-name"]
    ELSE [valid |-> TRUE, message |-> "branch-valid"]

v1_validateCommitMessage(commitMessage) ==
    IF ~v1_commitRegexTest(commitMessage)
    THEN [valid |-> FALSE, message |-> "invalid-commit-message"]
    ELSE [valid |-> TRUE, message |-> "commit-valid"]

\* ---- v3 ---------------------------------------------------------------
\* CONFIG.projectKeys (PROJECT_KEYS, default SHOP,PROJ,TASK)
v3_projectKeys == {w_SHOP, w_PROJ, w_TASK}

\* the characters the pattern's . does not match
LineTerminators == {"\n", "\r"}

\* ([A-Z]+)-(\d+) at position i of s: the position after it, or 0
v3_ticketEndAt(s, i) ==
    LET k == skipRun(s, i, UpperSet)
        e == skipRun(s, k + 1, DigitChars)
    IN  IF k > i /\ k <= Len(s) /\ s[k] = "-" /\ e > k + 1 THEN e ELSE 0

\* ([A-Z]+)-(\d+)-(.+)$ at position i of s: where the description starts, or 0
v3_descriptionAt(s, i) ==
    LET e == v3_ticketEndAt(s, i)
    IN  IF /\ e > 0
           /\ e < Len(s)
           /\ s[e] = "-"
           /\ \A j \in (e + 1)..Len(s) : s[j] \notin LineTerminators
        THEN e + 1 ELSE 0

\* name.match(PATTERNS[type]): where the description group starts, or 0
v3_match(name, type) ==
    IF type = "branch"
    THEN IF \E p \in CategoryPrefixes : startsWith(name, p \o <<"/">>)
         THEN LET p == CHOOSE q \in CategoryPrefixes : startsWith(name, q \o <<"/">>)
              IN  v3_descriptionAt(name, Len(p) + 2)
         ELSE 0
    ELSE v3_descriptionAt(name, 1)

\* extractTicketId(name): the leftmost match of /([A-Z]+)-(\d+)/, '' for null
RECURSIVE v3_findTicketFrom(_, _)
v3_findTicketFrom(s, i) ==
    IF i > Len(s) THEN <<>>
    ELSE IF v3_ticketEndAt(s, i) > 0 THEN SubSeq(s, i, v3_ticketEndAt(s, i) - 1)
    ELSE v3_findTicketFrom(s, i + 1)

\* the rightmost match instead of the leftmost
RECURSIVE v3_findTicketBack(_, _)
v3_findTicketBack(s, i) ==
    IF i < 1 THEN <<>>
    ELSE IF v3_ticketEndAt(s, i) > 0 /\ (i = 1 \/ s[i - 1] \notin UpperSet)
    THEN SubSeq(s, i, v3_ticketEndAt(s, i) - 1)
    ELSE v3_findTicketBack(s, i - 1)

extractTicketId_last(name) == v3_findTicketBack(name, Len(name))

extractTicketId(name) == v3_findTicketFrom(name, 1)

\* CONFIG.projectKeys.includes(projectKey)
v3_keyConfigured_any(projectKey) == TRUE
v3_keyConfigured(projectKey) == projectKey \in v3_projectKeys

validateFormat(name, type) ==
    IF v3_match(name, type) = 0
    THEN [valid |-> FALSE, message |-> "invalid-format"]
    ELSE LET ticketId == extractTicketId(name)
             projectKey == projectKeyOf(ticketId)
         IN  IF ticketId = <<>>
             THEN [valid |-> FALSE, message |-> "no-ticket"]
             ELSE IF ~v3_keyConfigured(projectKey)
             THEN [valid |-> FALSE, message |-> "invalid-project-key"]
             ELSE [valid |-> TRUE, message |-> "format-valid",
                   ticketId |-> ticketId, projectKey |-> projectKey]

\* the description checks shared by validateBranchName and validateCommitMessage
v3_checkDescription(name, type, formatResult) ==
    LET description == SubSeq(name, v3_match(name, type), Len(name))
    IN  IF includes(description, <<" ">>)
        THEN [valid |-> FALSE, message |-> "description-spaces"]
        ELSE IF includes(description, <<"_">>)
        THEN [valid |-> FALSE, message |-> "description-underscores"]
        ELSE IF description # toLowerCase(description)
        THEN [valid |-> FALSE, message |-> "description-uppercase"]
        ELSE [valid |-> TRUE, message |-> "valid",
              ticketId |-> formatResult.ticketId, projectKey |-> formatResult.projectKey]

v3_skippedResult == [valid |-> TRUE, message |-> "skipped", skipped |-> TRUE]

\* validateBranchName / validateCommitMessage of the v3 validator
v3_validate_formatFirst(name, type, skip) ==
    IF ~validateFormat(name, type).valid THEN validateFormat(name, type)
    ELSE IF skip THEN v3_skippedResult
    ELSE v3_checkDescription(name, type, validateFormat(name, type))
v3_validate(name, type, skip) ==
    IF skip THEN v3_skippedResult
    ELSE IF ~validateFormat(name, type).valid THEN validateFormat(name, type)
    ELSE v3_checkDescription(name, type, validateFormat(name, type))

v3_validateBranchName(branchName, skip) == v3_validate(branchName, "branch", skip)
v3_validateCommitMessage(commitMessage, skip) == v3_validate(commitMessage, "commit", skip)

\* result.ticketId, undefined when the result has none
ticketIdOf(result) == IF "ticketId" \in DOMAIN result THEN result.ticketId ELSE <<>>

v3_validateBoth_noMismatch(branchName, commitMessage, skip) ==
    LET branchResult == v3_validateBranchName(branchName, skip)
        commitResult == v3_validateCommitMessage(commitMessage, skip)
    IN  [valid |-> branchResult.valid /\ commitResult.valid,
         message |-> IF branchResult.valid /\ commitResult.valid
                     THEN "both-valid" ELSE "validation-failed",
         branchResult |-> branchResult, commitResult |-> commitResult]

v3_validateBoth(branchName, commitMessage, skip) ==
    LET branchResult == v3_validateBranchName(branchName, skip)
        commitResult == v3_validateCommitMessage(commitMessage, skip)
    IN  IF /\ branchResult.valid /\ commitResult.valid
           /\ ticketIdOf(branchResult) # <<>> /\ ticketIdOf(commitResult) # <<>>
           /\ ticketIdOf(branchResult) # ticketIdOf(commitResult)
        THEN [valid |-> FALSE, message |-> "ticket-mismatch",
              branchResult |-> branchResult, commitResult |-> commitResult]
        ELSE [valid |-> branchResult.valid /\ commitResult.valid,
              message |-> IF branchResult.valid /\ commitResult.valid
                          THEN "both-valid" ELSE "validation-failed",
              branchResult |-> branchResult, commitResult |-> commitResult]

\* ---- the command lines --------------------------------------------------
\* the v1 command line: validate-git branch|commit <value>
cliV1(args) ==
    IF Len(args) < 2 THEN [exit |-> 1, did |-> "usage"]
    ELSE IF args[1] = "branch"
    THEN LET result == v1_validateBranchName(args[2])
         IN  [exit |-> IF result.valid THEN 0 ELSE 1, did |-> "validated",
              result |-> result]
    ELSE IF args[1] = "commit"
    THEN LET result == v1_validateCommitMessage(args[2])
         IN  [exit |-> IF result.valid THEN 0 ELSE 1, did |-> "validated",
              result |-> result]
    ELSE [exit |-> 1, did |-> "invalid-type"]

\* args[i], '' when the argument is not given (both are falsy)
argOf(args, i) == IF Len(args) >= i THEN args[i] ELSE <<>>

\* process.exit(result.valid ? 0 : 1)
exitCodeOf_zero(result) == 0
exitCodeOf(result) == IF result.valid THEN 0 ELSE 1

\* the v3 command line: runValidation()
cliV3(args, skip) ==
    IF Len(args) = 0 THEN [exit |-> 1, did |-> "usage"]
    ELSE IF args[1] = "branch"
    THEN IF argOf(args, 2) = <<>> THEN [exit |-> 1, did |-> "missing-argument"]
         ELSE LET result == v3_validateBranchName(args[2], skip)
              IN  [exit |-> exitCodeOf(result), did |-> "validated", result |-> result]
    ELSE IF args[1] = "commit"
    THEN IF argOf(args, 2) = <<>> THEN [exit |-> 1, did |-> "missing-argument"]
         ELSE LET result == v3_validateCommitMessage(args[2], skip)
              IN  [exit |-> exitCodeOf(result), did |-> "validated", result |-> result]
    ELSE IF args[1] = "both"
    THEN IF argOf(args, 2) = <<>> \/ argOf(args, 3) = <<>>
         THEN [exit |-> 1, did |-> "missing-argument"]
         ELSE LET result == v3_validateBoth(args[2], args[3], skip)
              IN  [exit |-> exitCodeOf(result), did |-> "validated", result |-> result]
    ELSE IF args[1] = "config" THEN [exit |-> 0, did |-> "config"]
    ELSE [exit |-> 1, did |-> "unknown-command"]

\* ---- inputs ---------------------------------------------------------------
FormatPrefixes ==
    {<<>>, w_feature \o <<"/">>, w_hotfix \o <<"/">>, w_release \o <<"/">>,
     <<"F">> \o Tail(w_feature) \o <<"/">>, <<"i","n","v","a","l","i","d","/">>}

FormatTickets ==
    {<<>>, TicketShop, w_PROJ \o <<"-","1">>, w_BAD \o <<"-","1","2">>,
     toLowerCase(TicketShop), w_SHOP \o <<"-">>}

FormatDescriptions ==
    {<<>>, w_gift, join(<<w_gift, w_card>>, "-"), join(<<w_gift, w_card>>, "_"),
     join(<<w_gift, w_card>>, " "), join(<<w_gift, w_card>>, "."),
     w_Cards, w_card \o <<"2">>, w_gift \o <<"-">> \o w_PROJ \o <<"-","1">>}

\* prefix, ticket and description put together as the formats want them
FormatName(p, t, d) ==
    p \o (IF t = <<>> THEN d ELSE IF d = <<>> THEN t ELSE t \o <<"-">> \o d)

FormatNames ==
    {FormatName(p, t, d) : p \in FormatPrefixes, t \in FormatTickets,
                           d \in FormatDescriptions}

Commands == {"branch", "commit", "both", "config", "deploy"}

BothBranches ==
    {<<>>, FormatName(w_feature \o <<"/">>, TicketShop, w_gift),
     FormatName(w_feature \o <<"/">>, TicketShop, w_Cards)}
BothCommits ==
    {<<>>, FormatName(<<>>, TicketShop, w_gift),
     FormatName(<<>>, w_PROJ \o <<"-","1">>, w_gift),
     FormatName(<<>>, w_BAD \o <<"-","1","2">>, w_gift)}

Argvs ==
    {<<>>} \cup {<<c>> : c \in Commands}
           \cup {<<c, n>> : c \in Commands, n \in FormatNames}
           \cup {<<"both", b, c>> : b \in BothBranches, c \in BothCommits}

\* ---- the state machine: one operation on one input -----------------------
RelevanceIdle ==
    /\ relName = <<>>
    /\ relSummary = <<>>
    /\ relTicket = <<>>
    /\ relResult = NotCalled

InitFormat ==
    /\ cliArgs = <<>>
    /\ skipValidation \in BOOLEAN
    /\ fmtResult = NotCalled
    /\ RelevanceIdle
    /\ JiraIdle

\* a call of a library function on name, with what it returned
Called(op, type, name, value) ==
    [outcome |-> "returned", op |-> op, type |-> type, name |-> name, value |-> value]

\* a run of a command line, with what it did
Ran(op, outcome) == [outcome |-> "exited", op |-> op, run |-> outcome]

FormatFrame == UNCHANGED <<relVars, jiraVars, skipValidation>>

CallV1ValidateBranchName ==
    /\ fmtResult = NotCalled
    /\ \E name \in FormatNames :
          fmtResult' = Called("v1", "branch", name, v1_validateBranchName(name))
    /\ UNCHANGED cliArgs
    /\ FormatFrame

CallV1ValidateCommitMessage ==
    /\ fmtResult = NotCalled
    /\ \E name \in FormatNames :
          fmtResult' = Called("v1", "commit", name, v1_validateCommitMessage(name))
    /\ UNCHANGED cliArgs
    /\ FormatFrame

CallV3ValidateBranchName ==
    /\ fmtResult = NotCalled
    /\ \E name \in FormatNames :
          fmtResult' = Called("v3", "branch", name,
                              v3_validateBranchName(name, skipValidation))
    /\ UNCHANGED cliArgs
    /\ FormatFrame

CallV3ValidateCommitMessage ==
    /\ fmtResult = NotCalled
    /\ \E name \in FormatNames :
          fmtResult' = Called("v3", "commit", name,
                              v3_validateCommitMessage(name, skipValidation))
    /\ UNCHANGED cliArgs
    /\ FormatFrame

\* the format check validateBranchName / validateCommitMessage of the Jira
\* validator make before they look the ticket up
CallJiraFormatCheck ==
    /\ fmtResult = NotCalled
    /\ \E type \in {"branch", "commit"}, name \in FormatNames :
          fmtResult' = Called("jira", type, name, formatCheck(type, name))
    /\ UNCHANGED cliArgs
    /\ FormatFrame

\* validateFormat(name, type) of the v3 validator, as validateBranchName and
\* validateCommitMessage call it
CallV3ValidateFormat ==
    /\ fmtResult = NotCalled
    /\ \E type \in {"branch", "commit"}, name \in FormatNames :
          fmtResult' = Called("v3-format", type, name, validateFormat(name, type))
    /\ UNCHANGED cliArgs
    /\ FormatFrame

RunCliV1 ==
    /\ fmtResult = NotCalled
    /\ \E args \in Argvs :
          /\ cliArgs' = args
          /\ fmtResult' = Ran("cli-v1", cliV1(args))
    /\ FormatFrame

RunCliV3 ==
    /\ fmtResult = NotCalled
    /\ \E args \in Argvs :
          /\ cliArgs' = args
          /\ fmtResult' = Ran("cli-v3", cliV3(args, skipValidation))
    /\ FormatFrame

NextFormat ==
    \/ CallV1ValidateBranchName
    \/ CallV1ValidateCommitMessage
    \/ CallV3ValidateBranchName
    \/ CallV3ValidateCommitMessage
    \/ CallJiraFormatCheck
    \/ CallV3ValidateFormat
    \/ RunCliV1
    \/ RunCliV3

SpecFormat == InitFormat /\ [][NextFormat]_vars

(***************************************************************************)
(* Properties of the format validators and command lines (SpecFormat).     *)
(***************************************************************************)
CalledOn(op, type) ==
    /\ fmtResult.outcome = "returned"
    /\ fmtResult.op = op
    /\ fmtResult.type = type

AllIn(s, chars) == \A i \in 1..Len(s) : s[i] \in chars

\* s is SHOP-<digits>-<description> with a description of lower-case
\* letters, digits and dashes
IsShopTicketAndDescription(s) ==
    \E b \in 1..Len(s) :
        /\ b > 6
        /\ SubSeq(s, 1, 5) = <<"S","H","O","P","-">>
        /\ AllIn(SubSeq(s, 6, b - 1), DigitChars)
        /\ s[b] = "-"
        /\ b < Len(s)
        /\ AllIn(SubSeq(s, b + 1, Len(s)), LowerSet \cup DigitChars \cup {"-"})

\* C14: the v1 validateBranchName accepts a name exactly when it is
\* feature/, bugfix/ or hotfix/ followed by SHOP-<digits>-<description>;
\* a name without the SHOP- ticket, with an upper-case first letter, an
\* underscore or a space is rejected.
C14_V1Branch ==
    CalledOn("v1", "branch") =>
        LET name == fmtResult.name
            valid == fmtResult.value.valid
        IN  /\ valid <=>
                 \E p \in {w_feature, w_bugfix, w_hotfix} :
                    /\ Len(name) > Len(p)
                    /\ SubSeq(name, 1, Len(p) + 1) = p \o <<"/">>
                    /\ IsShopTicketAndDescription(SubSeq(name, Len(p) + 2, Len(name)))
            /\ (\/ ~includes(name, <<"S","H","O","P","-">>)
                \/ (name # <<>> /\ name[1] \in UpperSet)
                \/ includes(name, <<"_">>)
                \/ includes(name, <<" ">>)) => ~valid

\* a name with the right prefix and ticket is rejected for its underscore
C14_Witness ==
    /\ CalledOn("v1", "branch")
    /\ fmtResult.name = FormatName(w_feature \o <<"/">>, TicketShop,
                                   join(<<w_gift, w_card>>, "_"))
    /\ ~fmtResult.value.valid

C14_WitnessAccepted ==
    /\ CalledOn("v1", "branch")
    /\ fmtResult.name = FormatName(w_hotfix \o <<"/">>, TicketShop,
                                   join(<<w_gift, w_card>>, "-"))
    /\ fmtResult.value.valid

\* C15: the v1 validateCommitMessage accepts a message exactly when it is
\* SHOP-<digits>-<description>; a message with a space, an underscore, an
\* upper-case description letter or no ticket is rejected.
C15_V1Commit ==
    CalledOn("v1", "commit") =>
        LET name == fmtResult.name
            valid == fmtResult.value.valid
        IN  /\ valid <=> IsShopTicketAndDescription(name)
            /\ (\/ ~includes(name, <<"S","H","O","P","-">>)
                \/ includes(name, <<"_">>)
                \/ includes(name, <<" ">>)
                \/ includes(name, w_Cards)) => ~valid

\* a message with the ticket is rejected for its upper-case description
C15_Witness ==
    /\ CalledOn("v1", "commit")
    /\ fmtResult.name = FormatName(<<>>, TicketShop, w_Cards)
    /\ ~fmtResult.value.valid

C15_WitnessAccepted ==
    /\ CalledOn("v1", "commit")
    /\ fmtResult.name = FormatName(<<>>, TicketShop, w_card \o <<"2">>)
    /\ fmtResult.value.valid

\* the part of name after its ticket ID and the dash that follows it
DescriptionAfter(name, ticketId) ==
    LET i == CHOOSE k \in 1..Len(name) :
                 /\ StartsAt(name, ticketId, k)
                 /\ \A j \in 1..(k - 1) : ~StartsAt(name, ticketId, j)
    IN  SubSeq(name, i + Len(ticketId) + 1, Len(name))

\* C16: with validation not skipped, a name the v3 validateBranchName or
\* validateCommitMessage accepts has, after its ticket ID, a description of
\* lower-case letters, digits and dashes only.
C16_DescriptionCharset ==
    (/\ fmtResult.outcome = "returned"
     /\ fmtResult.op = "v3"
     /\ ~skipValidation
     /\ fmtResult.value.valid) =>
        AllIn(DescriptionAfter(fmtResult.name, fmtResult.value.ticketId),
              LowerSet \cup DigitChars \cup {"-"})

\* the project key a name carries: the text before the first dash, after
\* the first slash of a branch name
RECURSIVE upTo(_, _)
upTo(s, c) == IF s = <<>> \/ Head(s) = c THEN <<>> ELSE <<Head(s)>> \o upTo(Tail(s), c)

KeyCarried(name, type) ==
    IF type = "branch"
    THEN upTo(SubSeq(name, Len(upTo(name, "/")) + 2, Len(name)), "-")
    ELSE upTo(name, "-")

\* C17: with validation not skipped, a name is accepted only if the project
\* key it carries is a configured one, by the v3 validator and by the format
\* check of the Jira validator alike.
C17_ConfiguredKey ==
    (/\ fmtResult.outcome = "returned"
     /\ fmtResult.op \in {"v3", "jira"}
     /\ ~(fmtResult.op = "v3" /\ skipValidation)) =>
        LET key == KeyCarried(fmtResult.name, fmtResult.type)
            keys == IF fmtResult.op = "v3" THEN v3_projectKeys ELSE JiraProjectKeys
        IN  /\ fmtResult.value.valid => key \in keys
            /\ key \notin keys => ~fmtResult.value.valid

\* a well-formed name with a project key that is not configured is rejected
C17_Witness ==
    /\ CalledOn("v3", "branch")
    /\ ~skipValidation
    /\ fmtResult.name = FormatName(w_feature \o <<"/">>, w_BAD \o <<"-","1","2">>, w_gift)
    /\ fmtResult.value.message = "invalid-project-key"

C17_WitnessJira ==
    /\ CalledOn("jira", "branch")
    /\ fmtResult.name = FormatName(w_feature \o <<"/">>, w_PROJ \o <<"-","1">>, w_gift)
    /\ ~fmtResult.value.valid

\* C18: with SKIP_VALIDATION set, the v3 validateBranchName and
\* validateCommitMessage return valid = true and skipped = true for every
\* input, whatever its format.
C18_SkipAll ==
    (/\ fmtResult.outcome = "returned"
     /\ fmtResult.op = "v3"
     /\ skipValidation) =>
        /\ fmtResult.value.valid
        /\ "skipped" \in DOMAIN fmtResult.value
        /\ fmtResult.value.skipped

\* skipped for a name that has neither a prefix nor a ticket
C18_Witness ==
    /\ CalledOn("v3", "branch")
    /\ skipValidation
    /\ fmtResult.name = join(<<w_gift, w_card>>, " ")
    /\ fmtResult.value.valid

\* what the command line was asked to validate, and whether that is valid
HasArg(i) == Len(cliArgs) >= i /\ cliArgs[i] # <<>>

RequestedValid(op) ==
    IF op = "cli-v1"
    THEN /\ Len(cliArgs) >= 2
         /\ \/ cliArgs[1] = "branch" /\ v1_validateBranchName(cliArgs[2]).valid
            \/ cliArgs[1] = "commit" /\ v1_validateCommitMessage(cliArgs[2]).valid
    ELSE /\ Len(cliArgs) >= 1
         /\ \/ /\ cliArgs[1] = "branch" /\ HasArg(2)
               /\ v3_validateBranchName(cliArgs[2], skipValidation).valid
            \/ /\ cliArgs[1] = "commit" /\ HasArg(2)
               /\ v3_validateCommitMessage(cliArgs[2], skipValidation).valid
            \/ /\ cliArgs[1] = "both" /\ HasArg(2) /\ HasArg(3)
               /\ v3_validateBoth(cliArgs[2], cliArgs[3], skipValidation).valid

\* the config command of the v3 command line
ConfigRan(op) == op = "cli-v3" /\ Len(cliArgs) >= 1 /\ cliArgs[1] = "config"

\* C20: a command line exits with code 0 exactly when the validation it was
\* asked for succeeded or it ran the config command, and with code 1
\* otherwise (validation failed, unknown command, arguments missing).
C20_ExitCode ==
    fmtResult.outcome = "exited" =>
        fmtResult.run.exit =
            IF RequestedValid(fmtResult.op) \/ ConfigRan(fmtResult.op) THEN 0 ELSE 1

\* the v3 command line validated both names and failed on differing tickets
C20_Witness ==
    /\ fmtResult.outcome = "exited"
    /\ fmtResult.op = "cli-v3"
    /\ Len(cliArgs) = 3
    /\ cliArgs[1] = "both"
    /\ fmtResult.run.did = "validated"
    /\ fmtResult.run.result.message = "ticket-mismatch"
    /\ fmtResult.run.exit = 1

C20_WitnessConfig ==
    /\ fmtResult.outcome = "exited"
    /\ fmtResult.op = "cli-v3"
    /\ fmtResult.run.did = "config"
    /\ fmtResult.run.exit = 0

C20_WitnessV1 ==
    /\ fmtResult.outcome = "exited"
    /\ fmtResult.op = "cli-v1"
    /\ fmtResult.run.did = "validated"
    /\ fmtResult.run.exit = 0

(***************************************************************************)
(* Properties of the Jira validation with skipping (under Spec).           *)
(***************************************************************************)
\* the call a step has started, if it has started one
StartedCall == calls'[Len(calls')]

\* C19: while Jira validation is skipped, a validation of a name that passes
\* the format check makes no API request and resolves to a result reported
\* as valid with jiraSkipped = true, whatever the cache holds.
C19_SkippedWhateverCached ==
    [][(skipJira /\ started' = started + 1 /\ StartedCall.ticketId # <<>>) =>
          /\ StartedCall.pc = "resolved"
          /\ LET response == responseOf(StartedCall.ticketId,
                                        ticketCache'[StartedCall.ticketId])
             IN  /\ response.valid
                 /\ "jiraSkipped" \in DOMAIN response
                 /\ response.jiraSkipped]_vars

(***************************************************************************)
(* Cache management: clearCache() and getCacheStats().  The cache file is  *)
(* the file system's: whether it exists and whether deleting it throws are *)
(* the file system's answers.                                              *)
(***************************************************************************)
\* the return value of clearCache, by fs.existsSync(CACHE_FILE) and whether
\* fs.unlinkSync(CACHE_FILE) throws
clearCacheResult_alwaysOk(fileExists, unlinkThrows) ==
    [success |-> TRUE, message |-> "cleared"]

clearCacheResult(fileExists, unlinkThrows) ==
    IF fileExists /\ unlinkThrows
    THEN [success |-> FALSE, message |-> "failed-to-clear"]
    ELSE [success |-> TRUE, message |-> "cleared"]

\* the calls when ticketCache is replaced by a new object: a result that
\* the old cache held stays with the call it was resolved for
DetachAll(cs) ==
    [c \in DOMAIN cs |->
        IF cs[c].jira = Shared
        THEN [cs[c] EXCEPT !.jira = Own(ticketCache[cs[c].ticketId])]
        ELSE cs[c]]

\* clearCache()
ClearCache(fileExists, unlinkThrows) ==
    /\ CallerRuns
    /\ ticketCache' = <<>>
    /\ calls' = DetachAll(calls)
    /\ cacheOp' = [outcome |-> "clearCache",
                   value |-> clearCacheResult(fileExists, unlinkThrows)]
    /\ UNCHANGED <<relVars, fmtVars, both, skipJira, clock, started>>

\* stats.oldestEntry / stats.newestEntry when no entry was taken
Null == [isNull |-> TRUE]

\* the least and the greatest of a non-empty set of numbers
MinOf(ns) == CHOOSE n \in ns : \A m \in ns : n <= m
MaxOf(ns) == CHOOSE n \in ns : \A m \in ns : n >= m

\* entry.skipped
isSkipped(entry) == "skipped" \in DOMAIN entry /\ entry.skipped

\* the entries counted in validEntries
countsAsValid_unlessSkipped(entry) == entry.valid /\ ~isSkipped(entry)

countsAsValid(entry) == entry.valid

\* getCacheStats() on the cache `cache`.  The ticketId of the oldest and of
\* the newest entry is left out: among entries of one timestamp it is the
\* first inserted, and the cache is kept here without its insertion order.
getCacheStats(cache) ==
    LET ids == DOMAIN cache
        older == {cache[t].timestamp : t \in ids}
        newer == {n \in older : n > 0}
    IN  [totalEntries |-> Cardinality(ids),
         validEntries |-> Cardinality({t \in ids : countsAsValid(cache[t])}),
         invalidEntries |-> Cardinality({t \in ids : ~cache[t].valid}),
         skippedEntries |-> Cardinality({t \in ids : isSkipped(cache[t])}),
         oldestEntry |-> IF older = {} THEN Null ELSE [timestamp |-> MinOf(older)],
         newestEntry |-> IF newer = {} THEN Null ELSE [timestamp |-> MaxOf(newer)]]

\* getCacheStats()
GetCacheStats ==
    /\ CallerRuns
    /\ cacheOp' = [outcome |-> "getCacheStats", value |-> getCacheStats(ticketCache)]
    /\ UNCHANGED <<relVars, fmtVars, both, skipJira, clock, ticketCache, calls, started>>

(***************************************************************************)
(* Validations, cache clears and cache statistics over two tickets, with   *)
(* time passing.  Date.now() is positive.                                  *)
(***************************************************************************)
TicketOther == <<"S","H","O","P","-","1">>
BranchOther == w_feature \o <<"/">> \o TicketOther \o <<"-">> \o w_gift

CacheInputs ==
    {<<"branch", BranchGood>>, <<"branch", BranchPoor>>, <<"branch", BranchOther>>}

InitCache ==
    /\ relName = <<>>
    /\ relSummary = <<>>
    /\ relTicket = <<>>
    /\ relResult = NotCalled
    /\ skipJira \in BOOLEAN
    /\ clock = 1
    /\ ticketCache = <<>>
    /\ calls = <<>>
    /\ started = 0
    /\ cacheOp = NotCalled
    /\ both = BothIdle
    /\ FormatIdle

NextCache ==
    \/ \E in \in CacheInputs : StartCall(in[1], in[2])
    \/ \E c \in 1..Len(calls), resp \in HttpResponses : ResponseEnd(c, resp)
    \/ \E c \in 1..Len(calls) : RequestError(c)
    \/ \E c \in 1..Len(calls) : RequestTimeout(c)
    \/ \E c \in 1..Len(calls) : ErrorAfterDestroy(c)
    \/ \E c \in 1..Len(calls) : Continue(c)
    \/ Tick
    \/ \E fileExists, unlinkThrows \in BOOLEAN : ClearCache(fileExists, unlinkThrows)
    \/ GetCacheStats

SpecCache == InitCache /\ [][NextCache]_vars

(***************************************************************************)
(* Properties of the cache (under SpecCache)                               *)
(***************************************************************************)
\* C21: every clearCache() leaves the in-memory cache without entries, so
\* that getCacheStats().totalEntries is 0, also when deleting the cache file
\* throws; it returns success = false exactly when that deletion throws.
C21_ClearCache ==
    [][\A fileExists, unlinkThrows \in BOOLEAN :
          ClearCache(fileExists, unlinkThrows) =>
              /\ DOMAIN ticketCache' = {}
              /\ getCacheStats(ticketCache').totalEntries = 0
              /\ ~cacheOp'.value.success <=> (fileExists /\ unlinkThrows)]_vars

\* clearCache() has failed to delete the file after a validation had put a
\* ticket in the cache, and the cache is empty
C21_Witness ==
    /\ cacheOp.outcome = "clearCache"
    /\ ~cacheOp.value.success
    /\ DOMAIN ticketCache = {}
    /\ \E c \in 1..Len(calls) : calls[c].pc = "done" /\ calls[c].ticketId # <<>>

\* C22: a call is answered with the cached entry, without a request, exactly
\* when the cache holds an entry for its ticket ID whose age is less than the
\* TTL; an entry of age TTL or more is not returned: a request is made, or
\* a new result is built at the time of the call.
CacheEntry(r) == [f \in DOMAIN r \ {"relevance"} |-> r[f]]

AnsweredFromCache ==
    /\ StartedCall.pc = "resolved"
    /\ StartedCall.jira = Shared
    /\ StartedCall.ticketId \in DOMAIN ticketCache
    /\ CacheEntry(ticketCache'[StartedCall.ticketId]) =
           CacheEntry(ticketCache[StartedCall.ticketId])

AgeOf(ticketId) == clock - ticketCache[ticketId].timestamp

C22_CacheTTL ==
    [][(started' = started + 1 /\ StartedCall.ticketId # <<>>) =>
          LET ticketId == StartedCall.ticketId
              cached == ticketId \in DOMAIN ticketCache
          IN  /\ AnsweredFromCache <=> (cached /\ AgeOf(ticketId) < CacheTTL)
              /\ (cached /\ AgeOf(ticketId) >= CacheTTL) =>
                    \/ StartedCall.pc = "request" /\ ticketCache' = ticketCache
                    \/ ticketCache'[ticketId].timestamp = clock]_vars

\* the second call was made when the entry of its ticket was exactly TTL
\* old, and waits for its request
C22_Witness ==
    /\ started = 2
    /\ Len(calls) = 1
    /\ cacheOp = NotCalled
    /\ calls[1].pc = "request"
    /\ calls[1].ticketId \in DOMAIN ticketCache
    /\ AgeOf(calls[1].ticketId) = CacheTTL

\* the second call was answered from the cache, half a TTL after the first
C22_WitnessHit ==
    /\ started = 2
    /\ Len(calls) = 1
    /\ cacheOp = NotCalled
    /\ calls[1].pc = "resolved"
    /\ AgeOf(calls[1].ticketId) = CacheTTL \div 2

\* C29: the statistics getCacheStats returns, after any validations and
\* cache clears, have validEntries + invalidEntries = totalEntries and
\* skippedEntries <= validEntries, and for a non-empty cache an oldest and a
\* newest entry with oldest timestamp <= newest timestamp.
C29_CacheStats ==
    cacheOp.outcome = "getCacheStats" =>
        LET stats == cacheOp.value
        IN  /\ stats.validEntries + stats.invalidEntries = stats.totalEntries
            /\ stats.skippedEntries <= stats.validEntries
            /\ stats.totalEntries > 0 =>
                  /\ stats.oldestEntry # Null
                  /\ stats.newestEntry # Null
                  /\ stats.oldestEntry.timestamp <= stats.newestEntry.timestamp

\* statistics of a cache with a valid and an invalid entry of different times
C29_Witness ==
    /\ cacheOp.outcome = "getCacheStats"
    /\ cacheOp.value.totalEntries = 2
    /\ cacheOp.value.validEntries = 1
    /\ cacheOp.value.invalidEntries = 1
    /\ cacheOp.value.oldestEntry.timestamp < cacheOp.value.newestEntry.timestamp

\* statistics of a cache of skipped validations
C29_WitnessSkipped ==
    /\ cacheOp.outcome = "getCacheStats"
    /\ cacheOp.value.skippedEntries = 2
    /\ cacheOp.value.validEntries = 2

C24_WitnessTimeout ==
    \E c \in 1..Len(calls) :
        /\ calls[c].pc = "resolvedInCallback"
        /\ calls[c].errorPending
        /\ ticketCache[calls[c].ticketId].message = "timeout"

(***************************************************************************)
(* The cache as seen by the callers (under Spec)                           *)
(***************************************************************************)
\* what validateBranchName / validateCommitMessage returns for the name of
\* call c when the ticket is fetched from the API
FetchedResponse(c) ==
    responseOf(calls[c].ticketId,
               issueResult(calls[c].name, calls[c].ticketId, clock))

\* C26: a call that returns with the data of an existing ticket returns the
\* valid flag and the relevance that a fetch from the API gives for its
\* name, whether it was served from the cache or not and whatever names
\* were validated against the ticket before.
C26_CacheTransparent ==
    \A c \in 1..Len(calls) :
        (/\ calls[c].pc = "done"
         /\ calls[c].ticketId # <<>>
         /\ "relevanceInfo" \in DOMAIN calls[c].response) =>
            /\ calls[c].response.valid = FetchedResponse(c).valid
            /\ calls[c].response.relevanceInfo = FetchedResponse(c).relevanceInfo

\* the message of the result the promise of a returned call was resolved
\* with, when that result was invalid
ResolvedWith(call) == call.response.jiraError

\* the step runs the last callback of the request of call c
LastCallback(c) ==
    /\ started' = started
    /\ Len(calls') = Len(calls)
    /\ \/ calls[c].pc = "request" /\ calls'[c].pc # "request" /\ ~calls'[c].errorPending
       \/ calls[c].errorPending /\ ~calls'[c].errorPending

\* C27: when the last callback of a call's request has run, the cache entry
\* of the call's ticket ID is the result the call's promise was resolved
\* with, also for a request that timed out and was destroyed.
C27_CacheHoldsResolved ==
    [][\A c \in 1..Len(calls) :
          LastCallback(c) =>
              LET entry == ticketCache'[calls[c].ticketId]
                  call == calls'[c]
              IN  /\ call.jira.kind = "own" => entry = call.jira.obj
                  /\ (call.pc = "done" /\ "jiraError" \in DOMAIN call.response)
                        => entry.message = ResolvedWith(call)]_vars

(***************************************************************************)
(* validateBoth(branchName, commitMessage) of the Jira module: both        *)
(* validations run up to their await one after the other, before any       *)
(* continuation; the result is put together when both have returned.       *)
(* Validations are made before validateBoth, at most MaxCallsBefore.       *)
(***************************************************************************)
\* a property that is not there
Undefined == [isUndefined |-> TRUE]

\* r[f] || otherwise
FieldOr(r, f, otherwise) == IF f \in DOMAIN r /\ r[f] # <<>> THEN r[f] ELSE otherwise

\* the value validateBoth returns
bothResult(branchResult, commitResult) ==
    [branch |-> branchResult,
     commit |-> commitResult,
     valid |-> branchResult.valid /\ commitResult.valid,
     summary |-> [branchValid |-> branchResult.valid,
                  commitValid |-> commitResult.valid,
                  jiraTicket |-> FieldOr(branchResult, "ticketId",
                                         FieldOr(commitResult, "ticketId", Undefined)),
                  jiraInfo |-> FieldOr(branchResult, "jiraInfo",
                                       FieldOr(commitResult, "jiraInfo", Undefined))]]

\* Promise.all([validateBranchName(branchName), validateCommitMessage(commitMessage)])
ValidateBoth(branchName, commitMessage) ==
    /\ both = BothIdle
    /\ CallerRuns
    /\ started' = started + 2
    /\ LET first == startCall(ticketCache, Remaining(calls), "branch", branchName)
           second == startCall(first.cache, first.calls, "commit", commitMessage)
       IN  /\ ticketCache' = second.cache
           /\ calls' = second.calls
    /\ both' = [state |-> "running", branchName |-> branchName,
                commitMessage |-> commitMessage]
    /\ UNCHANGED <<relVars, fmtVars, cacheOp, skipJira, clock>>

\* the code after `await Promise.all(...)`
FinishBoth ==
    /\ both.state = "running"
    /\ LET branchCall == calls[Len(calls) - 1]
           commitCall == calls[Len(calls)]
       IN  /\ {branchCall.pc, commitCall.pc} \subseteq {"done", "rejected"}
           /\ both' = IF "rejected" \in {branchCall.pc, commitCall.pc}
                      THEN [both EXCEPT !.state = "rejected"]
                      ELSE [state |-> "returned", branchName |-> both.branchName,
                            commitMessage |-> both.commitMessage,
                            value |-> bothResult(branchCall.response, commitCall.response)]
    /\ UNCHANGED <<relVars, fmtVars, cacheOp, skipJira, clock, ticketCache, calls, started>>

CommitPoor == TicketShop \o <<"-">> \o join(<<w_user, w_authentication>>, "-")

BothInputs == {BranchGood, BranchPoor} \X {CommitGood, CommitPoor}

NextBoth ==
    \/ \E in \in CallInputs :
          both = BothIdle /\ started < MaxCallsBefore /\ StartCall(in[1], in[2])
    \/ \E in \in BothInputs : ValidateBoth(in[1], in[2])
    \/ \E c \in 1..Len(calls), resp \in HttpResponses : ResponseEnd(c, resp)
    \/ \E c \in 1..Len(calls) : RequestError(c)
    \/ \E c \in 1..Len(calls) : RequestTimeout(c)
    \/ \E c \in 1..Len(calls) : ErrorAfterDestroy(c)
    \/ \E c \in 1..Len(calls) : Continue(c)
    \/ FinishBoth

SpecBoth == Init /\ [][NextBoth]_vars

\* the percentage a name scores against the summary of its own ticket
ScoreOfName(name) ==
    validateContentRelevance(name, JiraSummary(extractJiraTicketId(name)),
                             extractJiraTicketId(name)).value.matchPercentage

\* C25: when validateBoth returns a branch result and a commit result that
\* both carry relevance information, the branch result's is the relevance of
\* the branch name and the commit result's is the relevance of the commit
\* message.
C25_OwnRelevance ==
    (/\ both.state = "returned"
     /\ "relevanceInfo" \in DOMAIN both.value.branch
     /\ "relevanceInfo" \in DOMAIN both.value.commit) =>
        /\ both.value.branch.relevanceInfo.matchPercentage = ScoreOfName(both.branchName)
        /\ both.value.commit.relevanceInfo.matchPercentage = ScoreOfName(both.commitMessage)

(***************************************************************************)
(* Termination.  The event loop runs a continuation that is ready, and the *)
(* request of a call ends: with a response, an error or a timeout.         *)
(***************************************************************************)
RequestEnds ==
    \E c \in 1..Len(calls) :
        \/ RequestTimeout(c)
        \/ RequestError(c)
        \/ \E resp \in HttpResponses : ResponseEnd(c, resp)

Continues == \E c \in 1..Len(calls) : Continue(c)

Fairness == WF_vars(RequestEnds) /\ WF_vars(Continues)

SpecLive == Init /\ [][Next]_vars /\ Fairness

\* a call waits for its request to end
RequestPending == \E c \in 1..Len(calls) : calls[c].pc = "request"

\* validateJiraTicket(ticketId, ...) needs no request: the cache answers,
\* validation is skipped, or the project key is not configured
NeedsNoRequest(ticketId) ==
    \/ cacheHit(ticketId)
    \/ skipJira
    \/ projectKeyOf(ticketId) \notin JiraProjectKeys

C28_WitnessSkipped ==
    \E c \in 1..Len(calls) :
        /\ calls[c].pc = "resolved"
        /\ "skipped" \in DOMAIN ticketCache[calls[c].ticketId]

(***************************************************************************)
(* validateBoth and the ticket ID of the v3 validator (under SpecFormat)   *)
(***************************************************************************)
\* the v3 command line has run `both` on a branch name and a commit message
BothRan ==
    /\ fmtResult.outcome = "exited"
    /\ fmtResult.op = "cli-v3"
    /\ Len(cliArgs) = 3
    /\ cliArgs[1] = "both"
    /\ fmtResult.run.did = "validated"

\* C23: validateBoth of the v3 validator returns valid = true exactly when
\* the branch name and the commit message are each valid and, if both
\* results carry a ticket ID, the two are equal; with validation not
\* skipped, valid = true means that both names carry the same ticket ID.
C23_BothValid ==
    BothRan =>
        LET result == fmtResult.run.result
            branchResult == v3_validateBranchName(cliArgs[2], skipValidation)
            commitResult == v3_validateCommitMessage(cliArgs[3], skipValidation)
            bothCarry == /\ "ticketId" \in DOMAIN branchResult
                         /\ "ticketId" \in DOMAIN commitResult
        IN  /\ result.valid <=>
                  /\ branchResult.valid
                  /\ commitResult.valid
                  /\ bothCarry => branchResult.ticketId = commitResult.ticketId
            /\ (~skipValidation /\ result.valid) =>
                  /\ extractTicketId(cliArgs[2]) # <<>>
                  /\ extractTicketId(cliArgs[2]) = extractTicketId(cliArgs[3])

\* a valid branch name and a valid commit message of different tickets
C23_Witness ==
    /\ BothRan
    /\ ~skipValidation
    /\ ~fmtResult.run.result.valid
    /\ fmtResult.run.result.branchResult.valid
    /\ fmtResult.run.result.commitResult.valid

\* a valid branch name and a valid commit message of one ticket
C23_WitnessSame ==
    /\ BothRan
    /\ ~skipValidation
    /\ fmtResult.run.result.valid

\* the ticket ID at the position the patterns require: at the start of a
\* commit message, after the first slash of a branch name
TicketStart(name, type) ==
    IF type = "branch" THEN Len(upTo(name, "/")) + 2 ELSE 1

TicketRequired(name, type) ==
    LET i == TicketStart(name, type)
        key == upTo(SubSeq(name, i, Len(name)), "-")
        number == SubSeq(name, i + Len(key) + 1,
                         skipRun(name, i + Len(key) + 1, DigitChars) - 1)
    IN  [ticketId |-> key \o <<"-">> \o number, projectKey |-> key]

\* C30: when the branch or commit pattern matches a name, extractTicketId
\* returns the project key and number at the position the pattern requires:
\* validateFormat never answers 'No valid ticket ID found', and the ticketId
\* and projectKey of a name it accepts are those at that position.
C30_TicketAtPosition ==
    (fmtResult.outcome = "returned" /\ fmtResult.op = "v3-format") =>
        LET name == fmtResult.name
            type == fmtResult.type
        IN  /\ fmtResult.value.message # "no-ticket"
            /\ v3_match(name, type) > 0 =>
                  extractTicketId(name) = TicketRequired(name, type).ticketId
            /\ fmtResult.value.valid =>
                  /\ fmtResult.value.ticketId = TicketRequired(name, type).ticketId
                  /\ fmtResult.value.projectKey = TicketRequired(name, type).projectKey

\* an accepted name whose description holds a second ticket ID
C30_Witness ==
    /\ fmtResult.outcome = "returned"
    /\ fmtResult.op = "v3-format"
    /\ fmtResult.value.valid
    /\ fmtResult.name = FormatName(w_feature \o <<"/">>, TicketShop,
                                   w_gift \o <<"-">> \o w_PROJ \o <<"-","1">>)
    /\ fmtResult.value.ticketId = TicketShop

====
